---- MODULE Spec2Model ----
(***************************************************************************)
(* Model of custom_components/platerecognizer/image_processing.py:         *)
(* PlateRecognizerEntity, an image-processing entity that posts camera     *)
(* images to the Plate Recognizer service, keeps the parsed vehicles,      *)
(* fires one event per vehicle, optionally saves the image and refreshes   *)
(* the usage statistics.                                                   *)
(*                                                                         *)
(* Python values are modelled as follows.  A dict is a function whose      *)
(* domain is its set of keys, a list is a sequence, None is the empty      *)
(* sequence and a value that may be None is the one-element sequence       *)
(* holding it (Some).  Strings are strings, built with \o as the code      *)
(* builds them with f-strings and strftime.                                *)
(***************************************************************************)
EXTENDS Integers, Sequences, FiniteSets, TLC

VARIABLES
    self,    \* the fields of the PlateRecognizerEntity instance
    clock,   \* local time, seconds since 2024-01-01 00:00:00
    pc,      \* where the entity is: "new", "idle" or inside process_image
    call     \* the operation in progress (or the last one) and its effects

vars == <<self, clock, pc, call>>

----------------------------------------------------------------------------
\* Bounds of the model

MaxResults == 2     \* longest "results" list of a recognition response
MaxTicks == 1       \* seconds that pass over the whole run
StartClock == 59    \* time of construction (one second before a minute turns)

----------------------------------------------------------------------------
\* Python values

None == <<>>
Some(x) == <<x>>
EmptyDict == [k \in {} |-> 0]

\* str(x) as an f-string formats a value that may be None
Str(x) == IF x = None THEN "None" ELSE x[1]

----------------------------------------------------------------------------
\* Module constants

EVENT_VEHICLE_DETECTED == "platerecognizer.vehicle_detected"
ATTR_PLATE == "plate"
ATTR_CONFIDENCE == "confidence"
ATTR_REGION_CODE == "region_code"
ATTR_VEHICLE_TYPE == "vehicle_type"
ATTR_ENTITY_ID == "entity_id"

\* self.entity_id, given by the host when the entity is added
EntityId == "image_processing.platerecognizer_front"

Pad2(n) == IF n < 10 THEN "0" \o ToString(n) ELSE ToString(n)

\* DATETIME_FORMAT = "%Y-%m-%d_%H-%M-%S" applied to the time t
\* (t stays within January 2024)
Strftime(t) ==
    "2024-01-" \o Pad2(1 + (t \div 86400)) \o "_" \o
    Pad2((t \div 3600) % 24) \o "-" \o Pad2((t \div 60) % 60) \o "-" \o
    Pad2(t % 60)

----------------------------------------------------------------------------
\* What the outside world can answer

Plates == {"ABC123", "XYZ789"}

\* entries of a "results" list that carry every key the code reads
FullResults ==
    [plate : Plates, score : {90}, region : [code : {"us-ca"}],
     vehicle : [type : {"Sedan"}]]

\* entries that miss plate, score, region.code or vehicle.type
PartialResults ==
    { [score |-> 90, region |-> [code |-> "us-ca"],
       vehicle |-> [type |-> "Sedan"]],
      [plate |-> "ABC123", region |-> [code |-> "us-ca"],
       vehicle |-> [type |-> "Sedan"]],
      [plate |-> "ABC123", score |-> 90, region |-> EmptyDict,
       vehicle |-> [type |-> "Sedan"]],
      [plate |-> "ABC123", score |-> 90, region |-> [code |-> "us-ca"],
       vehicle |-> EmptyDict] }

\* the lists the service answers with, up to MaxResults entries: every list
\* of full entries, and the lists with one partial entry at any place among
\* full entries of the plate XYZ789
ResultLists ==
    { l \in UNION { [1..n -> FullResults \cup PartialResults] :
                        n \in 0..MaxResults } :
        \/ \A i \in DOMAIN l : l[i] \in FullResults
        \/ /\ Cardinality({ i \in DOMAIN l : l[i] \in PartialResults }) = 1
           /\ \A i \in DOMAIN l :
                  l[i] \in FullResults => l[i].plate = "XYZ789" }

\* outcome of requests.post(PLATE_READER_URL, ...).json(): an exception, or
\* a JSON body with or without the "results" key
RecognitionResponses ==
    { [kind |-> "error"],
      [kind |-> "json", body |-> [detail |-> "Invalid token."]] }
    \cup { [kind |-> "json", body |-> [results |-> l]] : l \in ResultLists }

\* outcome of requests.get(STATS_URL, ...).json()
StatisticsResponses ==
    { [kind |-> "error"],
      [kind |-> "json",
       body |-> [total_calls |-> 2500, usage |-> [calls |-> 3],
                 resets_on |-> "2024-02-01"]],
      [kind |-> "json",
       body |-> [total_calls |-> 2500, usage |-> [calls |-> 4]]],
      [kind |-> "json", body |-> [usage |-> [calls |-> 3]]],
      [kind |-> "json", body |-> [total_calls |-> 2500, usage |-> EmptyDict]] }

\* the image bytes handed to process_image: a decodable image, bytes PIL
\* does not identify, and an identified image whose data is cut short
Images == {"png", "garbage", "truncated"}

\* what the file system does with img.save in this call
FsOutcomes == {"ok", "latest_fails", "timestamped_fails"}

NoResponse == [kind |-> "none"]

----------------------------------------------------------------------------
\* The entity

SelfFields ==
    {"name", "save_file_folder", "save_timestamped_file",
     "always_save_latest_jpg", "state", "results", "vehicles", "statistics",
     "last_detection"}

\* an operation on the entity: its inputs (resp, sresp, now) once they are
\* drawn, whether it follows a failed recognition, and what it has done so
\* far besides changing the fields of self
NewCall(op, after_failure) ==
    [op |-> op, resp |-> NoResponse, sresp |-> NoResponse, now |-> None,
     after_failure |-> after_failure,
     events |-> <<>>, written |-> <<>>, log |-> <<>>,
     escaped |-> FALSE, save_invoked |-> FALSE, stamped |-> FALSE]

CallFields == DOMAIN NewCall("new", FALSE)

\* self together with the operation in progress
Machine(s, c) == s @@ c
SelfOf(m) == [f \in SelfFields |-> m[f]]
CallOf(m) == [f \in CallFields |-> m[f]]

\* __init__ up to the first statistics request
NewEntity(folder, timestamped, always) ==
    [name |-> "platerecognizer_front",
     save_file_folder |-> folder,
     save_timestamped_file |-> timestamped,
     always_save_latest_jpg |-> always,
     state |-> None,
     results |-> EmptyDict,
     vehicles |-> <<EmptyDict>>,
     statistics |-> EmptyDict,
     last_detection |-> None]

----------------------------------------------------------------------------
\* get_statistics

StatisticsFail(resp) ==
    \/ resp.kind = "error"
    \/ "total_calls" \notin DOMAIN resp.body
    \/ "usage" \notin DOMAIN resp.body
    \/ "calls" \notin DOMAIN resp.body.usage

\* variants of get_statistics with a plausible fault: the except clause is
\* missing, the response is merged into the stored snapshot, the request is
\* skipped once a snapshot is stored
get_statistics_uncaught(m, resp) ==
    LET logged == [m EXCEPT !.log = Append(@, "get_statistics")]
    IN  IF StatisticsFail(resp)
        THEN [logged EXCEPT !.escaped = TRUE, !.log = Append(@, "raise")]
        ELSE [logged EXCEPT !.statistics =
                 ("calls_remaining" :>
                      resp.body.total_calls - resp.body.usage.calls)
                 @@ resp.body]

get_statistics_merged(m, resp) ==
    LET logged == [m EXCEPT !.log = Append(@, "get_statistics")]
    IN  IF StatisticsFail(resp)
        THEN logged
        ELSE [logged EXCEPT !.statistics =
                 ("calls_remaining" :>
                      resp.body.total_calls - resp.body.usage.calls)
                 @@ resp.body @@ m.statistics]

get_statistics_cached(m, resp) ==
    IF m.statistics # EmptyDict
    THEN m
    ELSE LET logged == [m EXCEPT !.log = Append(@, "get_statistics")]
         IN  IF StatisticsFail(resp)
             THEN logged
             ELSE [logged EXCEPT !.statistics =
                      ("calls_remaining" :>
                           resp.body.total_calls - resp.body.usage.calls)
                      @@ resp.body]

get_statistics(m, resp) ==
    LET logged == [m EXCEPT !.log = Append(@, "get_statistics")]
    IN  IF StatisticsFail(resp)
        THEN logged
        ELSE LET calls_remaining ==
                     resp.body.total_calls - resp.body.usage.calls
             IN  [logged EXCEPT !.statistics =
                      ("calls_remaining" :> calls_remaining) @@ resp.body]

----------------------------------------------------------------------------
\* process_image

HasKeys(r) ==
    /\ "plate" \in DOMAIN r
    /\ "score" \in DOMAIN r
    /\ "region" \in DOMAIN r
    /\ "code" \in DOMAIN r.region
    /\ "vehicle" \in DOMAIN r
    /\ "type" \in DOMAIN r.vehicle

Vehicle(r) ==
    (ATTR_PLATE :> r.plate) @@ (ATTR_CONFIDENCE :> r.score) @@
    (ATTR_REGION_CODE :> r.region.code) @@ (ATTR_VEHICLE_TYPE :> r.vehicle.type)

\* a variant of Recognize with a plausible fault: no reset, the new vehicles
\* are added to the ones already held
Recognize_extending(m, resp) ==
    LET posted == [m EXCEPT !.log = Append(@, "post")]
    IN  IF resp.kind = "error" \/ "results" \notin DOMAIN resp.body
        THEN posted
        ELSE LET got == [posted EXCEPT !.results = resp.body.results]
             IN  IF \E i \in 1..Len(got.results) : ~HasKeys(got.results[i])
                 THEN got
                 ELSE [got EXCEPT !.vehicles =
                          @ \o [i \in 1..Len(got.results) |->
                                    Vehicle(got.results[i])]]

\* the reset and the try block
Recognize(m, resp) ==
    LET reset == [m EXCEPT !.results = EmptyDict,
                           !.vehicles = <<EmptyDict>>,
                           !.log = Append(@, "post")]
    IN  IF resp.kind = "error" \/ "results" \notin DOMAIN resp.body
        THEN reset
        ELSE LET got == [reset EXCEPT !.results = resp.body.results]
             IN  IF \E i \in 1..Len(got.results) : ~HasKeys(got.results[i])
                 THEN got
                 ELSE [got EXCEPT !.vehicles =
                          [i \in 1..Len(got.results) |->
                               Vehicle(got.results[i])]]

\* a variant of fire_vehicle_detected_event with a plausible fault: the
\* update of the copy is lost
fire_vehicle_detected_event_bare(m, vehicle) ==
    [m EXCEPT !.events =
                  Append(@, [event_type |-> EVENT_VEHICLE_DETECTED,
                             data |-> vehicle]),
              !.log = Append(@, "fire")]

fire_vehicle_detected_event(m, vehicle) ==
    LET vehicle_copy == (ATTR_ENTITY_ID :> EntityId) @@ vehicle
    IN  [m EXCEPT !.events =
                      Append(@, [event_type |-> EVENT_VEHICLE_DETECTED,
                                 data |-> vehicle_copy]),
                  !.log = Append(@, "fire")]

RECURSIVE FireAll(_, _, _)
FireAll(m, vs, i) ==
    IF i > Len(vs) THEN m
    ELSE FireAll(fire_vehicle_detected_event(m, vs[i]), vs, i + 1)

\* a variant of CountAndFire with a plausible fault: >= for >
CountAndFire_stamping(m, now) ==
    LET counted == [m EXCEPT !.state = Some(Len(m.vehicles))]
    IN  IF counted.state[1] >= 0
        THEN FireAll([counted EXCEPT !.last_detection = Some(Strftime(now)),
                                     !.stamped = TRUE,
                                     !.log = Append(@, "stamp")],
                     counted.vehicles, 1)
        ELSE counted

\* the state, the timestamp and the events
CountAndFire(m, now) ==
    LET counted == [m EXCEPT !.state = Some(Len(m.vehicles))]
    IN  IF counted.state[1] > 0
        THEN FireAll([counted EXCEPT !.last_detection = Some(Strftime(now)),
                                     !.stamped = TRUE,
                                     !.log = Append(@, "stamp")],
                     counted.vehicles, 1)
        ELSE counted

WriteFile(m, path, tag) ==
    [m EXCEPT !.written = Append(@, path), !.log = Append(@, tag)]

Raise(m) == [m EXCEPT !.escaped = TRUE, !.log = Append(@, "raise")]

save_image(m, image, fs) ==
    LET entered == [m EXCEPT !.save_invoked = TRUE,
                             !.log = Append(@, "save_image")]
        latest_save_path ==
            m.save_file_folder[1] \o "/" \o m.name \o "_latest.png"
        timestamp_save_path ==
            m.save_file_folder[1] \o "/" \o m.name \o "_" \o
            Str(m.last_detection) \o ".png"
    IN  IF image = "garbage"
        THEN [entered EXCEPT !.log = Append(@, "warning")]
        ELSE IF image = "truncated" \/ fs = "latest_fails"
        THEN Raise(entered)
        ELSE LET saved == WriteFile(entered, latest_save_path, "write_latest")
             IN  IF ~m.save_timestamped_file
                 THEN saved
                 ELSE IF fs = "timestamped_fails"
                 THEN Raise(saved)
                 ELSE WriteFile(saved, timestamp_save_path,
                                "write_timestamped")

\* a variant of SaveDecision with a plausible fault: and for or
SaveDecision_both(m, image, fs) ==
    IF m.save_file_folder # None
    THEN IF m.state[1] > 0 /\ m.always_save_latest_jpg
         THEN save_image(m, image, fs)
         ELSE m
    ELSE m

\* the two conditions that guard the call of save_image
SaveDecision(m, image, fs) ==
    IF m.save_file_folder # None
    THEN IF m.state[1] > 0 \/ m.always_save_latest_jpg
         THEN save_image(m, image, fs)
         ELSE m
    ELSE m

\* the whole of process_image
process_image(m, image, resp, now, fs, sresp) ==
    LET recognized == Recognize(m, resp)
        fired == CountAndFire(recognized, now)
        saved == SaveDecision(fired, image, fs)
    IN  IF saved.escaped THEN saved ELSE get_statistics(saved, sresp)

----------------------------------------------------------------------------
\* The state machine.  process_image runs in four steps, in the order of its
\* statements; nothing else runs on the entity until the call has returned
\* or raised.

Init ==
    /\ \E folder \in {None, Some("/config/www")}, timestamped \in BOOLEAN,
          always \in BOOLEAN :
           self = NewEntity(folder, timestamped, always)
    /\ clock = StartClock
    /\ pc = "new"
    /\ call = NewCall("new", FALSE)

\* the last statement of __init__
Construct ==
    /\ pc = "new"
    /\ \E sresp \in StatisticsResponses :
         LET m == get_statistics(Machine(self, NewCall("construct", FALSE)),
                                 sresp)
         IN  /\ self' = SelfOf(m)
             /\ call' = [CallOf(m) EXCEPT !.sresp = sresp]
    /\ pc' = "idle"
    /\ UNCHANGED clock

\* the host hands an image of the camera to the entity: the request and the
\* parsing of its answer
Request ==
    /\ pc = "idle"
    /\ \E resp \in RecognitionResponses :
         LET failed == self.state # None /\ self.vehicles = <<EmptyDict>>
             m == Recognize(Machine(self, NewCall("process_image", failed)),
                            resp)
         IN  /\ self' = SelfOf(m)
             /\ call' = [CallOf(m) EXCEPT !.resp = resp]
             /\ pc' = IF m.escaped THEN "idle" ELSE "count"
    /\ UNCHANGED clock

\* the state, the timestamp and the events
Count ==
    /\ pc = "count"
    /\ \E now \in clock..(clock + 1) :
         /\ now <= StartClock + MaxTicks
         /\ LET m == CountAndFire(Machine(self, call), now)
            IN  /\ self' = SelfOf(m)
                /\ call' = [CallOf(m) EXCEPT !.now = Some(now)]
                /\ pc' = IF m.escaped THEN "idle" ELSE "save"
         /\ clock' = now

\* the save step; an exception it does not catch ends the call
Save ==
    /\ pc = "save"
    /\ \E image \in Images, fs \in FsOutcomes :
         /\ image # "png" => fs = "ok"
         /\ LET m == SaveDecision(Machine(self, call), image, fs)
            IN  /\ self' = SelfOf(m)
                /\ call' = CallOf(m)
                /\ pc' = IF m.escaped THEN "idle" ELSE "statistics"
    /\ UNCHANGED clock

\* the statistics refresh that ends process_image
Refresh ==
    /\ pc = "statistics"
    /\ \E sresp \in StatisticsResponses :
         LET m == get_statistics(Machine(self, call), sresp)
         IN  /\ self' = SelfOf(m)
             /\ call' = [CallOf(m) EXCEPT !.sresp = sresp]
    /\ pc' = "idle"
    /\ UNCHANGED clock

Next == Construct \/ Request \/ Count \/ Save \/ Refresh

Spec == Init /\ [][Next]_vars

----------------------------------------------------------------------------
\* Vocabulary of the properties

\* process_image has returned or raised
Done == pc = "idle" /\ call.op = "process_image"

\* the response carries a "results" list whose entries have every key
Successful(resp) ==
    /\ resp.kind = "json"
    /\ "results" \in DOMAIN resp.body
    /\ \A i \in DOMAIN resp.body.results : resp.body.results[i] \in FullResults

\* the request raised, the body has no "results", or an entry misses a key
RecognitionFailed(resp) ==
    \/ resp.kind = "error"
    \/ resp.kind = "json" /\ "results" \notin DOMAIN resp.body
    \/ /\ resp.kind = "json"
       /\ "results" \in DOMAIN resp.body
       /\ \E i \in DOMAIN resp.body.results :
              resp.body.results[i] \in PartialResults

VehicleKeys ==
    {ATTR_PLATE, ATTR_CONFIDENCE, ATTR_REGION_CODE, ATTR_VEHICLE_TYPE}

Times(log, tag) == Cardinality({ i \in DOMAIN log : log[i] = tag })
EndsWith(log, tag) == Len(log) > 0 /\ log[Len(log)] = tag

LatestPath(s) == s.save_file_folder[1] \o "/" \o s.name \o "_latest.png"
TimestampedPath(s, t) ==
    s.save_file_folder[1] \o "/" \o s.name \o "_" \o Strftime(t) \o ".png"

----------------------------------------------------------------------------
\* C1: when the recognition request or the parsing of its response fails,
\* the call leaves last_detection as it was and ends with state 0, an empty
\* vehicle list and no vehicle_detected event.
C1_FailureResetsToEmpty ==
    [][(call'.op = "process_image" /\ RecognitionFailed(call'.resp)) =>
           /\ self'.last_detection = self.last_detection
           /\ pc' = "idle" =>
                  /\ self'.state = Some(0)
                  /\ self'.vehicles = <<>>
                  /\ call'.events = <<>>]_vars

\* C2: after a call whose response has N entries with every key, the state
\* is N, the vehicle list holds the N records in the order of the response,
\* and N vehicle_detected events were fired, the i-th with the plate, score,
\* region code and vehicle type of the i-th entry and the entity's id.
C2_StateAndEventsMatchResponse ==
    (Done /\ Successful(call.resp)) =>
        LET rs == call.resp.body.results
        IN  /\ self.state = Some(Len(rs))
            /\ Len(self.vehicles) = Len(rs)
            /\ Len(call.events) = Len(rs)
            /\ \A i \in 1..Len(rs) :
                   /\ self.vehicles[i] =
                          [plate |-> rs[i].plate, confidence |-> rs[i].score,
                           region_code |-> rs[i].region.code,
                           vehicle_type |-> rs[i].vehicle.type]
                   /\ call.events[i] =
                          [event_type |-> "platerecognizer.vehicle_detected",
                           data |-> [plate |-> rs[i].plate,
                                     confidence |-> rs[i].score,
                                     region_code |-> rs[i].region.code,
                                     vehicle_type |-> rs[i].vehicle.type,
                                     entity_id |-> EntityId]]

C2_Witness ==
    /\ Done
    /\ Successful(call.resp)
    /\ Len(call.resp.body.results) = 2
    /\ call.resp.body.results[1].plate # call.resp.body.results[2].plate
    /\ Len(call.events) = 2

\* C3 as stated: a call whose recognition fails never ends with an exception.
C3_FailedCallNeverRaises ==
    (Done /\ RecognitionFailed(call.resp)) =>
        ~call.escaped /\ EndsWith(call.log, "get_statistics")

\* C3, amended: in a call whose recognition fails, neither that failure nor
\* a failure of the statistics refresh escapes; the call runs to the
\* statistics refresh and returns unless save_image, entered because a save
\* directory is configured, raises on a file write or on image data that
\* is cut short.
C3_OnlySaveImageRaises ==
    (Done /\ RecognitionFailed(call.resp)) =>
        /\ call.escaped =>
               /\ self.save_file_folder # None
               /\ call.save_invoked
               /\ EndsWith(call.log, "raise")
               /\ Times(call.log, "get_statistics") = 0
        /\ ~call.escaped =>
               /\ call.sresp # NoResponse
               /\ EndsWith(call.log, "get_statistics")
        /\ ~call.save_invoked => ~call.escaped

C3_Witness ==
    /\ Done
    /\ RecognitionFailed(call.resp)
    /\ call.save_invoked
    /\ call.sresp # NoResponse
    /\ StatisticsFail(call.sresp)
    /\ ~call.escaped

\* C4: a call whose response has an empty result list leaves last_detection
\* as it was (unset if it was unset) and ends with state 0 and no event.
C4_EmptyResponseKeepsLastDetection ==
    [][(/\ call'.op = "process_image"
        /\ Successful(call'.resp)
        /\ call'.resp.body.results = <<>>) =>
           /\ self'.last_detection = self.last_detection
           /\ pc' = "idle" =>
                  /\ self'.state = Some(0)
                  /\ call'.events = <<>>]_vars

C4_Witness ==
    /\ Done
    /\ Successful(call.resp)
    /\ call.resp.body.results = <<>>
    /\ self.last_detection # None
    /\ self.last_detection # Some(Strftime(call.now[1]))

\* C5: save_image is entered exactly when a save directory is configured and
\* the state is above 0 or always-save is set; without a save directory no
\* file is written, and with one, state 0 and always-save off, none either.
C5_SaveOnlyWhenConfiguredAndWanted ==
    /\ self.save_file_folder = None => call.written = <<>>
    /\ (call.op = "process_image" /\ pc \in {"statistics", "idle"}) =>
           /\ call.save_invoked <=>
                  /\ self.save_file_folder # None
                  /\ self.state[1] > 0 \/ self.always_save_latest_jpg
           /\ (/\ self.save_file_folder # None
               /\ self.state = Some(0)
               /\ ~self.always_save_latest_jpg) => call.written = <<>>

C5_Witness ==
    /\ Done
    /\ self.state = Some(0)
    /\ self.always_save_latest_jpg
    /\ call.save_invoked
    /\ call.written # <<>>

\* C6: a statistics refresh that fails leaves the stored snapshot as it was;
\* one that succeeds stores the keys of the response and calls_remaining,
\* nothing else, with the values of the response and
\* calls_remaining = total_calls - usage.calls.
C6_StatisticsKeptOrReplaced ==
    [][(call.sresp = NoResponse /\ call'.sresp # NoResponse) =>
           LET r == call'.sresp
           IN  IF \/ r.kind = "error"
                  \/ "total_calls" \notin DOMAIN r.body
                  \/ "usage" \notin DOMAIN r.body
                  \/ "calls" \notin DOMAIN r.body.usage
               THEN self'.statistics = self.statistics
               ELSE /\ DOMAIN self'.statistics =
                           DOMAIN r.body \cup {"calls_remaining"}
                    /\ \A k \in DOMAIN r.body :
                           self'.statistics[k] = r.body[k]
                    /\ self'.statistics.calls_remaining =
                           r.body.total_calls - r.body.usage.calls]_vars

\* a refresh that failed after an earlier one had stored a response without
\* the resets_on key
C6_Witness ==
    /\ Done
    /\ call.sresp # NoResponse
    /\ StatisticsFail(call.sresp)
    /\ self.statistics =
           [total_calls |-> 2500, usage |-> [calls |-> 4],
            calls_remaining |-> 2496]

\* C7: whenever no operation is in progress, the state is the length of the
\* vehicle list and every element of the list is a full vehicle record; and
\* last_detection is only ever set by a call that found at least one
\* vehicle.
C7_StateListAndLastDetectionAgree ==
    [][/\ pc' = "idle" =>
              /\ self'.state = Some(Len(self'.vehicles))
              /\ \A i \in DOMAIN self'.vehicles :
                     DOMAIN self'.vehicles[i] = VehicleKeys
       /\ self'.last_detection # self.last_detection =>
              /\ Successful(call'.resp)
              /\ Len(call'.resp.body.results) > 0]_vars

\* C8: the state, the vehicle list and the events of a call with a
\* well-formed response are those a newly constructed entity produces for
\* the same response, whatever calls came before.
C8_SameAsOnNewEntity ==
    (Done /\ Successful(call.resp)) =>
        LET new == NewEntity(self.save_file_folder,
                             self.save_timestamped_file,
                             self.always_save_latest_jpg)
            fresh == CountAndFire(
                         Recognize(Machine(new, NewCall("process_image",
                                                        FALSE)),
                                   call.resp),
                         call.now[1])
        IN  /\ self.state = fresh.state
            /\ self.vehicles = fresh.vehicles
            /\ call.events = fresh.events

C8_Witness ==
    /\ Done
    /\ call.after_failure
    /\ Successful(call.resp)
    /\ Len(call.resp.body.results) = 1
    /\ Len(self.vehicles) = 1

\* C9 as stated: every operation, however its save step ends, attempts the
\* statistics refresh exactly once, as its last step.
C9_RefreshEndsEveryCall ==
    pc = "idle" =>
        /\ Times(call.log, "get_statistics") = 1
        /\ EndsWith(call.log, "get_statistics")

\* C9, amended: construction attempts the statistics refresh once; a call of
\* process_image attempts it exactly once, after its events and its save
\* step, when the recognition succeeded or failed, the save was skipped or
\* the image was not identified; when save_image raises (a file write
\* fails), the call ends there and attempts no refresh.
C9_RefreshEndsEveryCallThatReturns ==
    pc = "idle" =>
        IF call.escaped
        THEN /\ call.save_invoked
             /\ EndsWith(call.log, "raise")
             /\ Times(call.log, "warning") = 0
             /\ Times(call.log, "get_statistics") = 0
        ELSE /\ Times(call.log, "get_statistics") = 1
             /\ EndsWith(call.log, "get_statistics")
             /\ call.sresp # NoResponse

C9_Witness ==
    /\ Done
    /\ Len(call.events) > 0
    /\ call.save_invoked
    /\ Times(call.log, "warning") = 1
    /\ call.written = <<>>
    /\ EndsWith(call.log, "get_statistics")

\* C10: a call that writes a timestamped file also writes the latest file,
\* and the timestamped file is named after the time stamped by that call.
C10_TimestampedFileNamedByThisCall ==
    \A i \in DOMAIN call.written :
        call.written[i] # LatestPath(self) =>
            /\ \E j \in DOMAIN call.written :
                   call.written[j] = LatestPath(self)
            /\ call.stamped
            /\ call.written[i] = TimestampedPath(self, call.now[1])

====
